---- MODULE Spec2Model ----
(***************************************************************************)
(* Model of Graph.py (QGIS processing script): buildGraph derives an       *)
(* adjacency graph from the polygons of a vector layer grouped by the      *)
(* value of one attribute field, then nxGraph folds it into a NetworkX     *)
(* graph.                                                                  *)
(*                                                                         *)
(* Coordinates are integers.  A geometry is the list of its rings, the     *)
(* outer ring first, each ring a closed sequence of points <<x, y>>.       *)
(***************************************************************************)
EXTENDS Integers, Sequences, FiniteSets, TLC

\* ------------------------------------------------------------------------
\* Bounds and input domains
\* ------------------------------------------------------------------------

Range(s) == {s[i] : i \in DOMAIN s}

\* Largest number of features in the vector layer.
MaxFeatures == 3

\* The raw values the grouping field takes (strings, as QGIS hands them out),
\* in the order in which a layer first uses them.
ValSeq == <<"a", "7", "b">>
Vals == Range(ValSeq)

\* The strings Python's float() parses, with the number each one denotes.
FloatOf == ("7" :> 7) @@ ("42" :> 42) @@ ("43" :> 43)
IsNumeric(s) == s \in DOMAIN FloatOf

\* Value of the second attribute field of the i-th feature.
Names == <<"42", "north", "43", "south">>
NameOf(i) == Names[((i - 1) % Len(Names)) + 1]

\* Python's None where a feature is expected: a value that is no feature.
None == [none |-> TRUE]
\* A local variable not assigned yet.
Unbound == [unbound |-> TRUE]

\* Unit squares A(0,0-1,1), B(1,1-2,2) touching A at a corner, C(5,5-6,6)
\* away from both, D(3,3-4,4), a square (0,0-6,6) with the hole (2,2-5,5),
\* inside which D lies, and a rectangle (0,0-8,6) with six unit holes: seven
\* rings, more than the five points of its outer ring.
UnitRing(x, y) == << <<x,y>>, <<x+1,y>>, <<x+1,y+1>>, <<x,y+1>>, <<x,y>> >>
SquareA == [rings |-> << << <<0,0>>, <<1,0>>, <<1,1>>, <<0,1>>, <<0,0>> >> >>]
SquareB == [rings |-> << << <<1,1>>, <<2,1>>, <<2,2>>, <<1,2>>, <<1,1>> >> >>]
SquareC == [rings |-> << << <<5,5>>, <<6,5>>, <<6,6>>, <<5,6>>, <<5,5>> >> >>]
SquareD == [rings |-> << << <<3,3>>, <<4,3>>, <<4,4>>, <<3,4>>, <<3,3>> >> >>]
Holed   == [rings |-> << << <<0,0>>, <<6,0>>, <<6,6>>, <<0,6>>, <<0,0>> >>,
                         << <<2,2>>, <<2,5>>, <<5,5>>, <<5,2>>, <<2,2>> >> >>]
ManyHoled == [rings |-> << << <<0,0>>, <<8,0>>, <<8,6>>, <<0,6>>, <<0,0>> >>,
                           UnitRing(1,1), UnitRing(3,1), UnitRing(5,1),
                           UnitRing(1,3), UnitRing(3,3), UnitRing(5,3) >>]
Geoms == {SquareA, SquareB, SquareC, SquareD, Holed, ManyHoled}

\* ------------------------------------------------------------------------
\* Helpers
\* ------------------------------------------------------------------------

Min(S) == CHOOSE m \in S : \A n \in S : m <= n
Max(S) == CHOOSE m \in S : \A n \in S : m >= n
Count(s, v) == Cardinality({i \in DOMAIN s : s[i] = v})

\* All orders in which the elements of the set S can be enumerated.
Orders(S) ==
    {s \in [1..Cardinality(S) -> S] : \A i, j \in DOMAIN s : s[i] = s[j] => i = j}

\* ------------------------------------------------------------------------
\* Geometry engine (QGIS primitives used by the script)
\* ------------------------------------------------------------------------

asPolygon(geometry) == geometry.rings

\* QgsGeometry.boundingBox(): the true bounding box, [xMin, yMin, xMax, yMax].
RingBox(ring) ==
    LET xs == {ring[i][1] : i \in DOMAIN ring}
        ys == {ring[i][2] : i \in DOMAIN ring}
    IN  <<Min(xs), Min(ys), Max(xs), Max(ys)>>
boundingBox(geometry) == RingBox(asPolygon(geometry)[1])

\* The point <<px/2, py/2>> lies in the closed polygon: inside or on the
\* outer ring and not strictly inside a hole.  Rings are axis-aligned
\* rectangles, so a ring is its box.
Covers(geometry, px, py) ==
    LET rings == asPolygon(geometry)
        o == RingBox(rings[1])
    IN  /\ 2 * o[1] <= px /\ px <= 2 * o[3]
        /\ 2 * o[2] <= py /\ py <= 2 * o[4]
        /\ \A k \in 2..Len(rings) :
              LET h == RingBox(rings[k])
              IN  ~(/\ 2 * h[1] < px /\ px < 2 * h[3]
                    /\ 2 * h[2] < py /\ py < 2 * h[4])

\* QgsGeometry.intersects(): the two closed polygons share a point.  A
\* shared point lies in both bounding boxes, and every face, edge and vertex
\* of the arrangement of integer grid lines holds a point of the
\* half-integer lattice, so polygons with integer vertices share a point
\* iff they share a lattice point of the boxes' overlap.
SharePoint(geometry1, geometry2) ==
    LET b1 == boundingBox(geometry1)
        b2 == boundingBox(geometry2)
        xlo == 2 * (IF b1[1] > b2[1] THEN b1[1] ELSE b2[1])
        ylo == 2 * (IF b1[2] > b2[2] THEN b1[2] ELSE b2[2])
        xhi == 2 * (IF b1[3] < b2[3] THEN b1[3] ELSE b2[3])
        yhi == 2 * (IF b1[4] < b2[4] THEN b1[4] ELSE b2[4])
    IN  \E px \in xlo..xhi, py \in ylo..yhi :
            Covers(geometry1, px, py) /\ Covers(geometry2, px, py)
intersects(geometry1, geometry2) == SharePoint(geometry1, geometry2)

\* QgsRectangle(xmin, ymin, xmax, ymax): the constructor normalises.
QgsRectangle(xmin, ymin, xmax, ymax) ==
    << IF xmin > xmax THEN xmax ELSE xmin, IF ymin > ymax THEN ymax ELSE ymin,
       IF xmin > xmax THEN xmin ELSE xmax, IF ymin > ymax THEN ymin ELSE ymax >>

\* QgsRectangle.intersects(): closed rectangles, touching counts.
RectIntersects(r1, r2) ==
    LET x1 == IF r1[1] > r2[1] THEN r1[1] ELSE r2[1]
        x2 == IF r1[3] < r2[3] THEN r1[3] ELSE r2[3]
        y1 == IF r1[2] > r2[2] THEN r1[2] ELSE r2[2]
        y2 == IF r1[4] < r2[4] THEN r1[4] ELSE r2[4]
    IN  ~(x1 > x2) /\ ~(y1 > y2)

\* QgsSpatialIndex: the features inserted, each under its bounding box.
\* intersects(rect) returns the ids whose box intersects rect.
IndexEntry(feature) == [id |-> feature.id, box |-> boundingBox(feature.geom)]
IndexIntersects(spatialIndex, rect) ==
    {e.id : e \in {e \in spatialIndex : RectIntersects(e.box, rect)}}

\* ------------------------------------------------------------------------
\* The vector layer
\* ------------------------------------------------------------------------

\* The script parameter Field, and the layer's schema (pendingFields).
Field == "F"
Schema == <<"F", "N">>

MakeFeature(i, v, g) == [id |-> i, attrs |-> [F |-> v, N |-> NameOf(i)], geom |-> g]

\* The group values of n features, up to renaming of the groups: the first
\* feature has ValSeq[1], and a feature that opens a group takes the first
\* value of ValSeq not used before it.
FirstUse(vs) ==
    \A n \in DOMAIN vs :
        \E m \in DOMAIN ValSeq :
            /\ vs[n] = ValSeq[m]
            /\ \A q \in 1..(m - 1) : \E r \in 1..(n - 1) : vs[r] = ValSeq[q]
GroupValues(n) == {vs \in [1..n -> Vals] : FirstUse(vs)}

\* Layers of 1..MaxFeatures polygons; feature ids are the positions.
Layers ==
    UNION {{[i \in 1..n |-> MakeFeature(i, vs[i], gs[i])] :
               vs \in GroupValues(n), gs \in [1..n -> Geoms]} : n \in 1..MaxFeatures}

\* ------------------------------------------------------------------------
\* Functions of Graph.py
\* ------------------------------------------------------------------------

\* The loop runs over range(len(coordList)), the number of rings, and reads
\* that many points of the outer ring coordList[0].
rectBounds(geometry) ==
    LET coordList == asPolygon(geometry)
        x == {coordList[1][i][1] : i \in 1..Len(coordList)}
        y == {coordList[1][i][2] : i \in 1..Len(coordList)}
    IN  <<Min(x), Min(y), Max(x), Max(y)>>

\* The exception rectBounds raises, or "none": ValueError from min() of an
\* empty list when there is no ring, IndexError from coordList[0][i] when
\* there are more rings than points in the outer ring.
rectBoundsError(geometry) ==
    LET coordList == asPolygon(geometry)
    IN  IF Len(coordList) = 0 THEN "ValueError"
        ELSE IF Len(coordList) > Len(coordList[1]) THEN "IndexError"
        ELSE "none"

\* field = value, with a number literal when float(value) succeeds and a
\* quoted string literal otherwise.
buildExpression(field, value) ==
    IF IsNumeric(value)
    THEN [field |-> field, literal |-> "number", number |-> FloatOf[value], text |-> ""]
    ELSE [field |-> field, literal |-> "string", number |-> 0, text |-> value]

\* QgsExpression.evaluate(feature) for the expressions buildExpression makes.
evaluate(exp, feature) ==
    LET v == feature.attrs[exp.field]
    IN  IF exp.literal = "number"
        THEN IsNumeric(v) /\ FloatOf[v] = exp.number
        ELSE v = exp.text

\* The features satisfying exp, in source order.
filter(layer, exp) == SelectSeq(layer, LAMBDA feature : evaluate(exp, feature))

\* quickFilter keeping the last match instead of returning at the first.
quickFilter_Last(layer, exp) ==
    IF \E n \in DOMAIN layer : evaluate(exp, layer[n])
    THEN layer[Max({n \in DOMAIN layer : evaluate(exp, layer[n])})]
    ELSE None

\* The first feature satisfying exp; falls off the loop (None) without one.
quickFilter(layer, exp) ==
    IF \E n \in DOMAIN layer : evaluate(exp, layer[n])
    THEN layer[Min({n \in DOMAIN layer : evaluate(exp, layer[n])})]
    ELSE None

\* updateEdges without its second append.
updateEdges_OneWay(dictionary, fieldValue1, fieldValue2) ==
    [dictionary EXCEPT ![fieldValue1].edges = Append(@, fieldValue2)]

updateEdges(dictionary, fieldValue1, fieldValue2) ==
    LET d1 == [dictionary EXCEPT ![fieldValue1].edges = Append(@, fieldValue2)]
    IN  [d1 EXCEPT ![fieldValue2].edges = Append(@, fieldValue1)]

smallRectangle(bounds1, bounds2) ==
    LET xMin == IF bounds1[1] > bounds2[1] THEN bounds1[1] ELSE bounds2[1]
        yMin == IF bounds1[2] > bounds2[2] THEN bounds1[2] ELSE bounds2[2]
        xMax == IF bounds1[3] < bounds2[3] THEN bounds1[3] ELSE bounds2[3]
        yMax == IF bounds1[4] < bounds2[4] THEN bounds1[4] ELSE bounds2[4]
    IN  QgsRectangle(xMin, yMin, xMax, yMax)

\* One group's entry [bounds, spatialIndex]: every matching feature goes
\* into the index and contributes rectBounds of its geometry to x and y.
GroupEntry(layer, field, value) ==
    LET matched == filter(layer, buildExpression(field, value))
        fb == [n \in DOMAIN matched |-> rectBounds(matched[n].geom)]
        x == UNION {{fb[n][1], fb[n][3]} : n \in DOMAIN matched}
        y == UNION {{fb[n][2], fb[n][4]} : n \in DOMAIN matched}
    IN  [bounds |-> <<Min(x), Min(y), Max(x), Max(y)>>,
         index  |-> {IndexEntry(matched[n]) : n \in DOMAIN matched}]

\* The exception one group's pass raises, or "none": that of rectBounds on
\* the first matching feature it fails on, else ValueError from min(x) when
\* no feature matched.
GroupError(layer, field, value) ==
    LET matched == filter(layer, buildExpression(field, value))
        failing == {n \in DOMAIN matched : rectBoundsError(matched[n].geom) # "none"}
    IN  IF failing # {} THEN rectBoundsError(matched[Min(failing)].geom)
        ELSE IF matched = <<>> THEN "ValueError"
        ELSE "none"

\* The exception boundsAndIndexDict raises, or "none": that of the first
\* group, in the iteration order of valueSet, whose pass raises.
boundsAndIndexDictError(layer, valueOrder, field) ==
    LET failing == {n \in DOMAIN valueOrder : GroupError(layer, field, valueOrder[n]) # "none"}
    IN  IF failing # {} THEN GroupError(layer, field, valueOrder[Min(failing)])
        ELSE "none"

boundsAndIndexDict(layer, valueSet, field) ==
    [value \in valueSet |-> GroupEntry(layer, field, value)]

\* The test of line 164 made on the bounding boxes instead of the geometries.
ExactTest_Boxes(feature1, feature2) ==
    RectIntersects(boundingBox(feature2.geom), boundingBox(feature1.geom))

\* feature2.geometry().intersects(feature1.geometry())
ExactTest(feature1, feature2) == intersects(feature2.geom, feature1.geom)

\* The candidate pairs (id1, id2) of the pair (value1, value2) whose
\* geometries intersect: none when the groups' rectangles do not intersect,
\* else taken from both indices' answers on the overlap rectangle.
PairHits(boundsIndexDict, features, value1, value2) ==
    LET index1 == boundsIndexDict[value1].index
        bounds == boundsIndexDict[value1].bounds
        rectangle1 == QgsRectangle(bounds[1], bounds[2], bounds[3], bounds[4])
        index2 == boundsIndexDict[value2].index
        tempBounds == boundsIndexDict[value2].bounds
        rectangle2 == QgsRectangle(tempBounds[1], tempBounds[2], tempBounds[3], tempBounds[4])
    IN  IF RectIntersects(rectangle1, rectangle2)
        THEN LET rectangle3 == smallRectangle(bounds, tempBounds)
                 ids1 == IndexIntersects(index1, rectangle3)
                 ids2 == IndexIntersects(index2, rectangle3)
             IN  {p \in ids1 \X ids2 : ExactTest(features[p[1]], features[p[2]])}
        ELSE {}

\* updateEdges applied n times to the same pair.
RECURSIVE RepeatUpdateEdges(_, _, _, _)
RepeatUpdateEdges(dictionary, fieldValue1, fieldValue2, n) ==
    IF n = 0 THEN dictionary
    ELSE RepeatUpdateEdges(updateEdges(dictionary, fieldValue1, fieldValue2),
                           fieldValue1, fieldValue2, n - 1)

\* The body of findEdges' inner loop for one (value1, value2): the while
\* loop makes a single pass over all candidate pairs, and every intersecting
\* one calls updateEdges (setting finish does not leave the for loops).
findEdgesPair(boundsIndexDict, graphDict, features, value1, value2) ==
    RepeatUpdateEdges(graphDict, value1, value2,
                      Cardinality(PairHits(boundsIndexDict, features, value1, value2)))

\* float(v) when it parses, else str(v).
Convert(v) ==
    IF IsNumeric(v) THEN [type |-> "float", number |-> FloatOf[v], text |-> ""]
    ELSE [type |-> "str", number |-> 0, text |-> v]

\* The attributes dictionary built from featureInstance for layerFields.
attributesDictionary(featureInstance, layerFields) ==
    [field \in Range(layerFields) |-> Convert(featureInstance.attrs[field])]

\* featureInstance[field] raises TypeError when quickFilter returned None;
\* it is only evaluated when layerFields is not empty.
addAttributesRaises(featureInstance, layerFields) ==
    featureInstance = None /\ layerFields # <<>>

\* networkx.Graph: nodes, a symmetric adjacency of neighbour sets (a simple
\* graph: adding an edge twice leaves one), and the nodes' attributes.
EmptyGraph == [nodes |-> {}, adj |-> [n \in {} |-> {}], attributes |-> [n \in {} |-> {}]]

add_node(graph, n) ==
    [graph EXCEPT !.nodes = @ \cup {n},
                  !.adj = [m \in DOMAIN @ \cup {n} |-> IF m \in DOMAIN @ THEN @[m] ELSE {}]]

add_edge(graph, u, v) ==
    LET g == add_node(add_node(graph, u), v)
    IN  [g EXCEPT !.adj = [m \in DOMAIN @ |->
                              @[m] \cup (IF m = u THEN {v} ELSE {}) \cup (IF m = v THEN {u} ELSE {})]]

RECURSIVE add_edges_from(_, _)
add_edges_from(graph, edgeList) ==
    IF edgeList = <<>> THEN graph
    ELSE add_edges_from(add_edge(graph, Head(edgeList)[1], Head(edgeList)[2]), Tail(edgeList))

\* nxEdgeTuples leaving out the edges from the vertex to itself.
nxEdgeTuples_NoSelfLoop(vertex, edgeList) ==
    LET kept == SelectSeq(edgeList, LAMBDA edge : edge # vertex)
    IN  [n \in DOMAIN kept |-> <<vertex, kept[n]>>]

nxEdgeTuples(vertex, edgeList) == [n \in DOMAIN edgeList |-> <<vertex, edgeList[n]>>]

\* nxGraph's loop over the items of graphDict, taken in the order `items`.
RECURSIVE nxGraphLoop(_, _, _)
nxGraphLoop(graph, graphDict, items) ==
    IF items = <<>> THEN graph
    ELSE LET vertex == Head(items)
             data == graphDict[vertex]
             g1 == add_edges_from(add_node(graph, vertex), nxEdgeTuples(vertex, data.edges))
             g2 == [g1 EXCEPT !.attributes =
                        [m \in DOMAIN @ \cup {vertex} |->
                            IF m = vertex THEN data.attributes ELSE @[m]]]
         IN  nxGraphLoop(g2, graphDict, Tail(items))

nxGraph(graphDict, items) == nxGraphLoop(EmptyGraph, graphDict, items)

\* ------------------------------------------------------------------------
\* State
\* ------------------------------------------------------------------------

VARIABLES
    inputLayer,       \* the vector layer: its features in source order
    pc,               \* where the run stands
    err,              \* the exception that ended the run, or "none"
    allFeatures,      \* {feature.id(): feature}
    fieldValues,      \* the set of group keys, in its iteration order
    graphDictionary,  \* {vertex: {'edges': [...], 'attributes': {...}}}
    layerFields,      \* the field names handed to addAttributesDict
    bdsIdxDict,       \* {vertex: [bounds, spatialIndex]}
    i, j,             \* findEdges: positions of value1 and value2
    valueSet2,        \* findEdges: the copy the outer loop shrinks
    evaluated,        \* findEdges: the (value1, value2) the inner body ran for
    k,                \* addAttributesDict: position of key
    featureInstance,  \* addAttributesDict: what quickFilter last returned
    graph             \* the NetworkX graph

vars == <<inputLayer, pc, err, allFeatures, fieldValues, graphDictionary, layerFields,
          bdsIdxDict, i, j, valueSet2, evaluated, k, featureInstance, graph>>

Keys == Range(fieldValues)

\* ------------------------------------------------------------------------
\* buildGraph and nxGraph, step by step
\* ------------------------------------------------------------------------

Init ==
    /\ inputLayer \in Layers
    /\ pc = "processParameters"
    /\ err = "none"
    /\ allFeatures = <<>>
    /\ fieldValues = <<>>
    /\ graphDictionary = <<>>
    /\ layerFields = <<>>
    /\ bdsIdxDict = <<>>
    /\ i = 1 /\ j = 1
    /\ valueSet2 = {}
    /\ evaluated = <<>>
    /\ k = 1
    /\ featureInstance = Unbound
    /\ graph = EmptyGraph

\* processParameters: the features by id, the set of str(feature[Field]) (a
\* Python set: any iteration order), an empty edge list per value, the
\* schema's field names.
ProcessParameters ==
    /\ pc = "processParameters"
    /\ allFeatures' = [id \in {inputLayer[n].id : n \in DOMAIN inputLayer} |->
                          inputLayer[CHOOSE n \in DOMAIN inputLayer : inputLayer[n].id = id]]
    /\ fieldValues' \in Orders({inputLayer[n].attrs[Field] : n \in DOMAIN inputLayer})
    /\ graphDictionary' = [value \in Range(fieldValues') |-> [edges |-> <<>>]]
    /\ layerFields' = Schema
    /\ pc' = "boundsAndIndexDict"
    /\ UNCHANGED <<inputLayer, err, bdsIdxDict, i, j, valueSet2, evaluated, k,
                   featureInstance, graph>>

\* boundsAndIndexDict: the dictionary, or the exception that ends the run.
BoundsAndIndexDict ==
    /\ pc = "boundsAndIndexDict"
    /\ IF boundsAndIndexDictError(inputLayer, fieldValues, Field) # "none"
       THEN /\ pc' = "error"
            /\ err' = boundsAndIndexDictError(inputLayer, fieldValues, Field)
            /\ UNCHANGED bdsIdxDict
       ELSE /\ bdsIdxDict' = boundsAndIndexDict(inputLayer, Keys, Field)
            /\ pc' = "findEdges"
            /\ err' = err
    /\ UNCHANGED <<inputLayer, allFeatures, fieldValues, graphDictionary, layerFields,
                   i, j, valueSet2, evaluated, k, featureInstance, graph>>

\* One pass of findEdges' inner loop body, for value1 = fieldValues[i] and
\* value2 = fieldValues[j].  The very first pass comes with line 138,
\* valueSet2 = valueSet.copy(), and the first inner pass of every outer
\* iteration with valueSet2.remove(value1).  Both loops run over valueSet.
FindEdges ==
    /\ pc = "findEdges"
    /\ LET value1 == fieldValues[i]
           value2 == fieldValues[j]
           copied == IF i = 1 /\ j = 1 THEN Keys ELSE valueSet2
       IN  /\ valueSet2' = IF j = 1 THEN copied \ {value1} ELSE copied
           /\ graphDictionary' = findEdgesPair(bdsIdxDict, graphDictionary, allFeatures,
                                               value1, value2)
           /\ evaluated' = Append(evaluated, <<value1, value2>>)
    /\ IF j < Len(fieldValues)
       THEN /\ j' = j + 1 /\ i' = i /\ pc' = pc
       ELSE IF i < Len(fieldValues)
       THEN /\ j' = 1 /\ i' = i + 1 /\ pc' = pc
       ELSE /\ j' = j /\ i' = i /\ pc' = "addAttributesDict"
    /\ UNCHANGED <<inputLayer, err, allFeatures, fieldValues, layerFields, bdsIdxDict,
                   k, featureInstance, graph>>

\* One pass of addAttributesDict's loop, for key = fieldValues[k].
AddAttributesDict ==
    /\ pc = "addAttributesDict"
    /\ LET key == fieldValues[k]
           expression == buildExpression(Field, key)
           found == quickFilter(inputLayer, expression)
       IN  /\ featureInstance' = found
           /\ IF addAttributesRaises(found, layerFields)
              THEN /\ pc' = "error"
                   /\ err' = "TypeError"
                   /\ UNCHANGED <<graphDictionary, k>>
              ELSE /\ graphDictionary' =
                        [graphDictionary EXCEPT ![key] =
                            [edges |-> @.edges,
                             attributes |-> attributesDictionary(found, layerFields)]]
                   /\ k' = k + 1
                   /\ pc' = IF k < Len(fieldValues) THEN pc ELSE "nxGraph"
                   /\ err' = err
    /\ UNCHANGED <<inputLayer, allFeatures, fieldValues, layerFields, bdsIdxDict,
                   i, j, valueSet2, evaluated, graph>>

\* runInputs: the graph dictionary becomes a NetworkX graph.
NxGraph ==
    /\ pc = "nxGraph"
    /\ graph' = nxGraph(graphDictionary, fieldValues)
    /\ pc' = "done"
    /\ UNCHANGED <<inputLayer, err, allFeatures, fieldValues, graphDictionary, layerFields,
                   bdsIdxDict, i, j, valueSet2, evaluated, k, featureInstance>>

Next ==
    \/ ProcessParameters
    \/ BoundsAndIndexDict
    \/ FindEdges
    \/ AddAttributesDict
    \/ NxGraph

Spec == Init /\ [][Next]_vars

\* ------------------------------------------------------------------------
\* addAttributesDict called on its own: any layer, any prefix of the schema
\* as layerFields, any graph dictionary (keys with and without a feature).
\* ------------------------------------------------------------------------

QueryKeys == Vals \cup {"z"}
QueryLayers == {layer \in Layers : \A n \in DOMAIN layer : layer[n].geom = SquareA}

InitQuery ==
    /\ inputLayer \in QueryLayers
    /\ pc = "addAttributesDict"
    /\ err = "none"
    /\ allFeatures = <<>>
    /\ \E keys \in (SUBSET QueryKeys) \ {{}} : fieldValues \in Orders(keys)
    /\ graphDictionary = [value \in Range(fieldValues) |-> [edges |-> <<>>]]
    /\ layerFields \in {SubSeq(Schema, 1, n) : n \in 0..Len(Schema)}
    /\ bdsIdxDict = <<>>
    /\ i = 1 /\ j = 1
    /\ valueSet2 = {}
    /\ evaluated = <<>>
    /\ k = 1
    /\ featureInstance = Unbound
    /\ graph = EmptyGraph

NextQuery == AddAttributesDict

SpecQuery == InitQuery /\ [][NextQuery]_vars

\* ------------------------------------------------------------------------
\* Properties
\* ------------------------------------------------------------------------

\* The members of a group: the features whose str(feature[Field]) is g.
Members(g) == {n \in DOMAIN inputLayer : inputLayer[n].attrs[Field] = g}

\* Some member of g1 and some member of g2 share a point.
Touch(g1, g2) ==
    \E m \in Members(g1), n \in Members(g2) :
        intersects(inputLayer[m].geom, inputLayer[n].geom)

Edges(g) == graphDictionary[g].edges

\* findEdges has returned.
EdgesFound == pc \in {"addAttributesDict", "nxGraph", "done"}

\* buildGraph has returned its dictionary.
GraphBuilt == pc \in {"nxGraph", "done"} /\ err = "none"

OuterRing(geometry) == Range(asPolygon(geometry)[1])

\* C1: where rectBounds(G) returns, its rectangle encloses every vertex of
\* G's outer ring, and each of its four bounds is the coordinate of some
\* vertex of the ring.
C1_RectBoundsEnclosesRing ==
    pc # "processParameters" =>
        \A n \in {m \in DOMAIN inputLayer : rectBoundsError(inputLayer[m].geom) = "none"} :
            LET ring == OuterRing(inputLayer[n].geom)
                r == rectBounds(inputLayer[n].geom)
            IN  /\ \A p \in ring : r[1] <= p[1] /\ p[1] <= r[3] /\ r[2] <= p[2] /\ p[2] <= r[4]
                /\ \E p \in ring : p[1] = r[1]
                /\ \E p \in ring : p[2] = r[2]
                /\ \E p \in ring : p[1] = r[3]
                /\ \E p \in ring : p[2] = r[4]

\* C2: once findEdges has returned, two distinct groups none of whose
\* members intersect are not in each other's edge list.
C2_NoEdgeBetweenDisjointGroups ==
    EdgesFound =>
        \A g1, g2 \in Keys :
            (g1 # g2 /\ ~Touch(g1, g2)) =>
                /\ g2 \notin Range(Edges(g1))
                /\ g1 \notin Range(Edges(g2))

\* Two disjoint groups got through the rectangle prefilter, both indices
\* answered with candidates, and the exact test turned them down.
C2_Witness ==
    /\ EdgesFound
    /\ \E g1, g2 \in Keys :
          /\ g1 # g2
          /\ ~Touch(g1, g2)
          /\ RectIntersects(bdsIdxDict[g1].bounds, bdsIdxDict[g2].bounds)
          /\ LET r == smallRectangle(bdsIdxDict[g1].bounds, bdsIdxDict[g2].bounds)
             IN  /\ IndexIntersects(bdsIdxDict[g1].index, r) # {}
                 /\ IndexIntersects(bdsIdxDict[g2].index, r) # {}
          /\ g2 \notin Range(Edges(g1))

\* C3: once findEdges has returned, two distinct groups with a member of one
\* intersecting a member of the other (a shared corner counts) are in each
\* other's edge list.
C3_AdjacentGroupsGetEdge ==
    EdgesFound =>
        \A g1, g2 \in Keys :
            (g1 # g2 /\ Touch(g1, g2)) =>
                /\ g2 \in Range(Edges(g1))
                /\ g1 \in Range(Edges(g2))

\* C4: once findEdges has returned, a group occurs at most once in the edge
\* list of any other group.
C4_AtMostOneEdgePerPair ==
    EdgesFound =>
        \A g1, g2 \in Keys :
            g1 # g2 => Count(Edges(g1), g2) <= 1 /\ Count(Edges(g2), g1) <= 1

\* C5: once buildGraph has returned, every vertex has an attributes mapping
\* over exactly the schema's field names, with the values of the first
\* feature, in source order, whose field value is the vertex key.
C5_AttributesOfFirstMember ==
    GraphBuilt =>
        \A key \in DOMAIN graphDictionary :
            /\ "attributes" \in DOMAIN graphDictionary[key]
            /\ DOMAIN graphDictionary[key].attributes = Range(Schema)
            /\ Members(key) # {}
            /\ LET first == inputLayer[Min(Members(key))]
               IN  \A field \in Range(Schema) :
                       graphDictionary[key].attributes[field] = Convert(first.attrs[field])

\* buildGraph has returned for a layer in which some group has two members.
C5_Witness ==
    /\ GraphBuilt
    /\ \E key \in Keys : Cardinality(Members(key)) >= 2

\* C6: once findEdges has returned, a vertex is in its own edge list iff two
\* distinct members of its group intersect.
C6_SelfLoopIffMembersTouch ==
    EdgesFound =>
        \A g \in Keys :
            (g \in Range(Edges(g))) <=>
                (\E m, n \in Members(g) :
                    m # n /\ intersects(inputLayer[m].geom, inputLayer[n].geom))

\* No feature of the layer satisfies field = key.
NoMatch(key) == filter(inputLayer, buildExpression(Field, key)) = <<>>

\* C7: quickFilter never returns without a feature, and addAttributesDict
\* neither gets past a key without a matching feature nor stores an
\* attributes mapping for it, whatever the schema.
C7_NoMatchIsFatal ==
    /\ featureInstance # None
    /\ \A n \in DOMAIN fieldValues :
          NoMatch(fieldValues[n]) =>
              /\ ~(n < k)
              /\ "attributes" \notin DOMAIN graphDictionary[fieldValues[n]]

\* C8 as stated: the NetworkX graph has the dictionary's vertices and
\* attribute mappings, and every vertex has each neighbour as many times as
\* its edge list names it (a neighbour of a simple graph counts once).
C8_SameAdjacencyMultiset ==
    pc = "done" =>
        /\ graph.nodes = DOMAIN graphDictionary
        /\ \A v \in DOMAIN graphDictionary :
              /\ graph.attributes[v] = graphDictionary[v].attributes
              /\ \A u \in DOMAIN graphDictionary :
                    Count(Edges(v), u) = IF u \in graph.adj[v] THEN 1 ELSE 0

\* C8 as amended: the NetworkX graph has the dictionary's vertices and
\* attribute mappings, and the neighbours of every vertex are the distinct
\* keys of its edge list.
C8_SameNeighbourSet ==
    pc = "done" =>
        /\ graph.nodes = DOMAIN graphDictionary
        /\ DOMAIN graph.adj = DOMAIN graphDictionary
        /\ DOMAIN graph.attributes = DOMAIN graphDictionary
        /\ \A v \in DOMAIN graphDictionary :
              /\ graph.attributes[v] = graphDictionary[v].attributes
              /\ graph.adj[v] = Range(Edges(v))

\* nxGraph has run on a dictionary with a repeated entry, a self-loop and
\* an edge between two vertices.
C8_Witness ==
    /\ pc = "done"
    /\ \E v, u \in Keys :
          /\ v # u
          /\ Count(Edges(v), u) >= 2
          /\ v \in Range(Edges(v))
          /\ u \in graph.adj[v]

\* The number of passes of the inner loop body over the unordered pair.
Evaluations(g1, g2) ==
    Cardinality({n \in DOMAIN evaluated : {evaluated[n][1], evaluated[n][2]} = {g1, g2}})

\* C9: in one run of findEdges the inner loop body runs exactly once for
\* every unordered pair of keys, self-pairs included.
C9_EachPairEvaluatedOnce ==
    EdgesFound => \A g1, g2 \in Keys : Evaluations(g1, g2) = 1

\* C10: in every state, each key is in another's edge list as often as the
\* other is in its own, the entries of the edge lists are keys, and the keys
\* of the dictionary are the field values found by processParameters.
C10_EdgesSymmetric ==
    pc # "processParameters" =>
        /\ DOMAIN graphDictionary = Keys
        /\ Keys = {inputLayer[n].attrs[Field] : n \in DOMAIN inputLayer}
        /\ \A g1, g2 \in Keys :
              /\ Count(Edges(g1), g2) = Count(Edges(g2), g1)
              /\ Range(Edges(g1)) \subseteq Keys

\* findEdges is under way and has recorded an edge between two vertices.
C10_Witness ==
    /\ pc = "findEdges"
    /\ \E g1, g2 \in Keys : g1 # g2 /\ Count(Edges(g1), g2) > 0

====
